---------------------------- MODULE Spec2Model ----------------------------
(***************************************************************************)
(* Model of the adaptive practice-question service of src/app.py: the      *)
(* difficulty adjuster, the per-session seen-question store, the question  *)
(* selection of /start and /submit and the answer scoring of /submit,      *)
(* together with the session-cookie handling (signup, login, logout) that  *)
(* decides whether a request is authorized.                                *)
(*                                                                         *)
(* Three specifications share the variables:                               *)
(*   Spec        every request is handled from its first to its last line  *)
(*               without another request in between;                       *)
(*   SpecAdjust  adjust_difficulty applied to inputs drawn from bounded     *)
(*               sets;                                                     *)
(*   SpecConc    /start and /submit handled by two worker threads whose     *)
(*               steps interleave at the handlers' reads and writes of the  *)
(*               shared state.                                             *)
(***************************************************************************)
EXTENDS Integers, Sequences, FiniteSets, TLC

VARIABLES
    users,    \* table "users": sequence of rows, a row's id is its index
    logs,     \* table "answer_logs": sequence of rows in insertion order
    seen,     \* SESSION_QUESTIONS_SEEN: session id -> set of question ids
    cookie,   \* per browser: the Flask session (keys user_id, session_id)
    request,  \* history: the request handled last (its answers by their number)
    resp,     \* the response to the request handled last
    served,   \* history: session id -> question id -> times returned to it
    adj,      \* SpecAdjust: the last call of adjust_difficulty and its result
    thr       \* SpecConc: per worker thread, the request it is handling

vars == <<users, logs, seen, cookie, request, resp, served, adj, thr>>

---------------------------------------------------------------------------
(* Bounds of the model *)

\* longest "answers" list of a /submit request
MaxAnswers == 2
\* rows the answer_logs table may hold
MaxLogs == 2
\* largest "total" given to adjust_difficulty in SpecAdjust
MaxTotal == 10

\* browsers (cookie jars)
Clients == {1}
\* e-mail addresses used at signup and login
Emails == {"a@x"}
\* subcategories a request may name
Subcategories == {"s1", "s2"}

---------------------------------------------------------------------------
(* Program constants and the catalog *)

\* the batch size of random.sample(unseen, min(5, len(unseen)))
BatchSize == 5
\* User.current_difficulty, default=2
DefaultDifficulty == 2
\* min(current + 1, 3)
MaxDifficulty == 3
\* max(current - 1, 1)
MinDifficulty == 1

\* Table "questions", in row order.  Subcategory s1 holds six questions of
\* difficulty 2 (one more than a batch) and none of difficulty 1 or 3;
\* subcategory s2 holds one question of difficulty 2 and one of difficulty 3.
QuestionTable ==
    << [id |-> 1, subcategory |-> "s1", difficulty |-> 2, correct_answer |-> "A"],
       [id |-> 2, subcategory |-> "s1", difficulty |-> 2, correct_answer |-> "B"],
       [id |-> 3, subcategory |-> "s1", difficulty |-> 2, correct_answer |-> "A"],
       [id |-> 4, subcategory |-> "s1", difficulty |-> 2, correct_answer |-> "B"],
       [id |-> 5, subcategory |-> "s1", difficulty |-> 2, correct_answer |-> "A"],
       [id |-> 6, subcategory |-> "s1", difficulty |-> 2, correct_answer |-> "B"],
       [id |-> 7, subcategory |-> "s2", difficulty |-> 2, correct_answer |-> "A"],
       [id |-> 8, subcategory |-> "s2", difficulty |-> 3, correct_answer |-> "A"] >>

\* The ids of the catalog.
QuestionIds == {QuestionTable[i].id : i \in DOMAIN QuestionTable}

\* The row of the question with the given id.
QuestionById(qid) ==
    CHOOSE q \in {QuestionTable[i] : i \in DOMAIN QuestionTable} : q.id = qid

---------------------------------------------------------------------------
(* Helpers *)

Min(a, b) == IF a <= b THEN a ELSE b
Max(a, b) == IF a >= b THEN a ELSE b

\* The ids of a list of questions.
Ids(qs) == {qs[i].id : i \in DOMAIN qs}

\* The elements of s at the positions I, in the order of s.
AtPositions(s, I) ==
    LET F[i \in 0..Len(s)] ==
            IF i = 0 THEN <<>>
            ELSE IF i \in I THEN Append(F[i - 1], s[i]) ELSE F[i - 1]
    IN  F[Len(s)]

\* The sequences over S of length at most n.
SeqUpTo(S, n) == UNION {[1..k -> S] : k \in 0..n}

---------------------------------------------------------------------------
(* Difficulty adjuster *)

\* correct / total >= 0.8 and correct / total <= 0.4: the quotient of two
\* small integers is the double nearest to the exact ratio, and the literals
\* 0.8 and 0.4 are the doubles nearest to 8/10 and 4/10, so the comparisons
\* agree with the comparisons of the exact ratios with 8/10 and 4/10.
\* Variant: the upper threshold taken as exclusive.
AccuracyAbove08(correct, total) == 10 * correct > 8 * total
AccuracyAtLeast08(correct, total) == 10 * correct >= 8 * total
AccuracyAtMost04(correct, total) == 10 * correct <= 4 * total

\* Variant: the result not clamped to the range of difficulties.
adjust_unclamped(current, correct, total) ==
    IF AccuracyAtLeast08(correct, total) THEN current + 1
    ELSE IF AccuracyAtMost04(correct, total) THEN current - 1
    ELSE current

adjust_difficulty(current, correct, total) ==
    IF AccuracyAtLeast08(correct, total) THEN Min(current + 1, MaxDifficulty)
    ELSE IF AccuracyAtMost04(correct, total) THEN Max(current - 1, MinDifficulty)
    ELSE current

---------------------------------------------------------------------------
(* Session store *)

\* str(uuid.uuid4()): an id no session has yet.
NewSessionId == CHOOSE n \in 1..(Cardinality(DOMAIN seen) + 1) : n \notin DOMAIN seen

\* session["session_id"] after get_or_create_session for the session ck.
SessionIdOf(ck) ==
    IF "session_id" \in DOMAIN ck THEN ck.session_id ELSE NewSessionId

\* The session ck after get_or_create_session.
WithSessionId(ck) ==
    IF "session_id" \in DOMAIN ck THEN ck
    ELSE [k \in DOMAIN ck \cup {"session_id"} |->
            IF k = "session_id" THEN NewSessionId ELSE ck[k]]

\* store.setdefault(sid, set())
SetDefault(store, sid) ==
    IF sid \in DOMAIN store THEN store
    ELSE [s \in DOMAIN store \cup {sid} |-> IF s = sid THEN {} ELSE store[s]]

\* has_seen_question: an absent session id behaves as the empty set.
has_seen_question(store, sid, qid) ==
    qid \in (IF sid \in DOMAIN store THEN store[sid] ELSE {})

\* Variant: the batch is not recorded.
MarkSeenForgets(store, sid, qs) == store

\* mark_question_seen for every question of a batch.
MarkSeen(store, sid, qs) == [store EXCEPT ![sid] = @ \cup Ids(qs)]

\* The history of returned questions after the list qs went to session sid.
Returned(hist, sid, qs) ==
    [s \in DOMAIN hist \cup {sid} |->
        [q \in QuestionIds |->
            (IF s \in DOMAIN hist THEN hist[s][q] ELSE 0)
            + (IF s = sid THEN Cardinality({i \in DOMAIN qs : qs[i].id = q}) ELSE 0)]]

---------------------------------------------------------------------------
(* Authentication *)

\* Variant: the first user of the table whatever the cookie holds.
current_user_unchecked(ck) == IF users # <<>> THEN 1 ELSE 0

\* current_user(): the id of the logged-in user's row, 0 for None.
current_user(ck) ==
    IF "user_id" \in DOMAIN ck /\ ck.user_id \in DOMAIN users
    THEN ck.user_id ELSE 0

\* The ids of the rows with the given e-mail address.
UsersByEmail(email) == {u \in DOMAIN users : users[u].email = email}

---------------------------------------------------------------------------
(* Question selection *)

\* Variant: the difficulty left out of the filter.
QueryBySubcategory(subcategory, difficulty) ==
    SelectSeq(QuestionTable, LAMBDA q : q.subcategory = subcategory)

\* Question.query.filter_by(subcategory=..., difficulty=...).all()
QueryQuestions(subcategory, difficulty) ==
    SelectSeq(QuestionTable,
              LAMBDA q : q.subcategory = subcategory /\ q.difficulty = difficulty)

\* Variant: seen questions not filtered out.
UnseenUnfiltered(store, sid, all_questions) == all_questions

\* [q for q in all_questions if not has_seen_question(session_id, q.id)]
Unseen(store, sid, all_questions) ==
    SelectSeq(all_questions, LAMBDA q : ~has_seen_question(store, sid, q.id))

\* random.sample(population, k): k elements at distinct positions.  The order
\* of a sample plays no part in the handlers, so each choice of positions is
\* listed once, in the order of the population.
Sample(population, k) ==
    {AtPositions(population, I) :
        I \in {J \in SUBSET (1..Len(population)) : Cardinality(J) = k}}

\* The batches /start and /submit may draw from the unseen questions.
Batches(unseen) == Sample(unseen, Min(BatchSize, Len(unseen)))

\* format_questions: the fields of a question the client gets (texts left out).
format_questions(qs) ==
    [i \in DOMAIN qs |->
        [id |-> qs[i].id, difficulty |-> qs[i].difficulty,
         correct_answer |-> qs[i].correct_answer]]

---------------------------------------------------------------------------
(* Answer scoring *)

\* Values of a request entry: Python's None is the empty tuple and the string
\* x the tuple <<x>>.
None == <<>>
String(x) == <<x>>

\* dict.get(key)
Get(a, key) == IF key \in DOMAIN a THEN a[key] ELSE None

\* str(value) of a string or of None.
Str(v) == IF v = None THEN "None" ELSE v[1]

\* "not q_id": None and 0 are falsy.
IdMissing(a) == "question_id" \notin DOMAIN a \/ a.question_id = 0

\* is_correct = user_answer == correct_answer, both taken from the request.
IsCorrect(a) == Str(Get(a, "user_answer")) = Str(Get(a, "correct_answer"))

\* The entries of the loop that reach db.session.add.
Logged(answers) == SelectSeq(answers, LAMBDA a : ~IdMissing(a))

\* correct_count after the loop.
CorrectCount(answers) ==
    Cardinality({i \in DOMAIN answers : ~IdMissing(answers[i]) /\ IsCorrect(answers[i])})

\* The AnswerLog rows the loop adds.
NewLogs(sid, answers) ==
    LET l == Logged(answers)
    IN  [i \in DOMAIN l |->
            [session_id |-> sid, question_id |-> l[i].question_id,
             is_correct |-> IsCorrect(l[i])]]

\* Variant: the total not guarded against 0.
TotalUnguarded(answers) == Len(answers)

\* max(1, len(answers))
Total(answers) == Max(1, Len(answers))

\* correct / total raises ZeroDivisionError.
ZeroDivision(total) == total = 0

\* The difficulty /submit stores for a user at difficulty d.
AdjustedDifficulty(d, answers) ==
    adjust_difficulty(d, CorrectCount(answers), Total(answers))

\* Entries of an "answers" list: the right answer to question 1, question 1
\* left unanswered, an answer that differs from the catalog's but equals the
\* correct answer the request itself carries, and an entry without question id.
Entries ==
    { [question_id |-> 1, user_answer |-> String("A"), correct_answer |-> String("A")],
      [question_id |-> 1, correct_answer |-> String("A")],
      [question_id |-> 1, user_answer |-> String("B"), correct_answer |-> String("B")],
      [user_answer |-> String("A"), correct_answer |-> String("A")] }

AnswerLists == SeqUpTo(Entries, MaxAnswers)

---------------------------------------------------------------------------
(* Responses *)

Response(kind, status, difficulty, questions) ==
    [kind |-> kind, status |-> status, difficulty |-> difficulty,
     questions |-> questions]

Unauthorized(kind) == Response(kind, 401, 0, <<>>)

Request(kind, c, subcategory, answers) ==
    [kind |-> kind, client |-> c, subcategory |-> subcategory,
     n_answers |-> Len(answers)]

NoCall == [current |-> 0, correct |-> 0, total |-> 0, result |-> 0]

\* The threads of the server, one per request in flight.
Threads == {1, 2}

\* A thread that has not been given a request.
Idle ==
    [pc |-> "idle", kind |-> "none", client |-> 0, user |-> 0, session |-> <<>>,
     subcategory |-> "", correct |-> 0, total |-> 0, loaded |-> 0, difficulty |-> 0,
     unseen |-> <<>>, status |-> 0, questions |-> <<>>]

---------------------------------------------------------------------------
(* Requests handled one at a time *)

Init ==
    /\ users = <<>>
    /\ logs = <<>>
    /\ seen = <<>>
    /\ cookie = [c \in Clients |-> <<>>]
    /\ request = Request("none", 0, "", <<>>)
    /\ resp = Response("none", 0, 0, <<>>)
    /\ served = <<>>
    /\ adj = NoCall
    /\ thr = [t \in Threads |-> Idle]

\* POST /signup
Signup(c, email) ==
    /\ request' = Request("signup", c, "", <<>>)
    /\ IF UsersByEmail(email) # {}
       THEN /\ resp' = Response("signup", 400, 0, <<>>)
            /\ UNCHANGED <<users, cookie>>
       ELSE /\ users' = Append(users, [email |-> email,
                                       current_difficulty |-> DefaultDifficulty])
            /\ cookie' = [cookie EXCEPT ![c] =
                            [k \in DOMAIN @ \cup {"user_id"} |->
                                IF k = "user_id" THEN Len(users) + 1 ELSE @[k]]]
            /\ resp' = Response("signup", 200, 0, <<>>)
    /\ UNCHANGED <<logs, seen, served, adj, thr>>

\* POST /login; password_ok: whether check_password accepts the password
Login(c, email, password_ok) ==
    /\ request' = Request("login", c, "", <<>>)
    /\ IF UsersByEmail(email) = {} \/ ~password_ok
       THEN /\ resp' = Response("login", 200, 0, <<>>)
            /\ UNCHANGED cookie
       ELSE /\ cookie' = [cookie EXCEPT ![c] =
                            [k \in DOMAIN @ \cup {"user_id"} |->
                                IF k = "user_id"
                                THEN CHOOSE u \in UsersByEmail(email) : TRUE
                                ELSE @[k]]]
            /\ resp' = Response("login", 302, 0, <<>>)
    /\ UNCHANGED <<users, logs, seen, served, adj, thr>>

\* GET /logout
Logout(c) ==
    /\ request' = Request("logout", c, "", <<>>)
    /\ cookie' = [cookie EXCEPT ![c] = [k \in DOMAIN @ \ {"user_id"} |-> @[k]]]
    /\ resp' = Response("logout", 200, 0, <<>>)
    /\ UNCHANGED <<users, logs, seen, served, adj, thr>>

\* POST /start
Start(c, subcategory) ==
    LET user == current_user(cookie[c])
        session_id == SessionIdOf(cookie[c])
        store == SetDefault(seen, session_id)
        difficulty == users[user].current_difficulty
        all_questions == QueryQuestions(subcategory, difficulty)
        unseen == Unseen(store, session_id, all_questions)
    IN  /\ request' = Request("start", c, subcategory, <<>>)
        /\ IF user = 0
           THEN /\ resp' = Unauthorized("start")
                /\ UNCHANGED <<users, logs, seen, cookie, served, adj, thr>>
           ELSE \E questions \in Batches(unseen) :
                  /\ cookie' = [cookie EXCEPT ![c] = WithSessionId(@)]
                  /\ seen' = MarkSeen(store, session_id, questions)
                  /\ served' = Returned(served, session_id, format_questions(questions))
                  /\ resp' = Response("start", 200, difficulty, format_questions(questions))
                  /\ UNCHANGED <<users, logs, adj, thr>>

\* POST /submit
Submit(c, subcategory, answers) ==
    LET user == current_user(cookie[c])
        session_id == SessionIdOf(cookie[c])
        store == SetDefault(seen, session_id)
        difficulty == AdjustedDifficulty(users[user].current_difficulty, answers)
        all_questions == QueryQuestions(subcategory, difficulty)
        unseen == Unseen(store, session_id, all_questions)
    IN  /\ request' = Request("submit", c, subcategory, answers)
        /\ IF user = 0
           THEN /\ resp' = Unauthorized("submit")
                /\ UNCHANGED <<users, logs, seen, cookie, served, adj, thr>>
           ELSE /\ Len(logs) + Len(Logged(answers)) <= MaxLogs
                /\ cookie' = [cookie EXCEPT ![c] = WithSessionId(@)]
                /\ logs' = logs \o NewLogs(session_id, answers)
                /\ IF ZeroDivision(Total(answers))
                   THEN \* the rows of the loop are committed, then adjust_difficulty raises
                        /\ seen' = store
                        /\ resp' = Response("submit", 500, 0, <<>>)
                        /\ UNCHANGED <<users, served, adj, thr>>
                   ELSE \E questions \in Batches(unseen) :
                          /\ users' = [users EXCEPT ![user].current_difficulty = difficulty]
                          /\ seen' = MarkSeen(store, session_id, questions)
                          /\ served' = Returned(served, session_id, format_questions(questions))
                          /\ resp' = Response("submit", 200, difficulty, format_questions(questions))
                          /\ UNCHANGED <<adj, thr>>

Next ==
    \/ \E c \in Clients, email \in Emails : Signup(c, email)
    \/ \E c \in Clients, email \in Emails, ok \in BOOLEAN : Login(c, email, ok)
    \/ \E c \in Clients : Logout(c)
    \/ \E c \in Clients, s \in Subcategories : Start(c, s)
    \/ \E c \in Clients, s \in Subcategories, a \in AnswerLists : Submit(c, s, a)

Spec == Init /\ [][Next]_vars

---------------------------------------------------------------------------
(* adjust_difficulty on its own *)

AdjustResult(current, correct, total) ==
    [current |-> current, correct |-> correct, total |-> total,
     result |-> adjust_difficulty(current, correct, total)]

InitAdjust ==
    /\ users = <<>>
    /\ logs = <<>>
    /\ seen = <<>>
    /\ cookie = [c \in Clients |-> <<>>]
    /\ request = Request("none", 0, "", <<>>)
    /\ resp = Response("none", 0, 0, <<>>)
    /\ served = <<>>
    /\ thr = [t \in Threads |-> Idle]
    /\ \E current \in MinDifficulty..MaxDifficulty, total \in 1..MaxTotal :
         \E correct \in 0..total : adj = AdjustResult(current, correct, total)

AdjustCall(current, correct, total) ==
    /\ adj' = AdjustResult(current, correct, total)
    /\ UNCHANGED <<users, logs, seen, cookie, request, resp, served, thr>>

NextAdjust ==
    \E current \in MinDifficulty..MaxDifficulty, total \in 1..MaxTotal :
      \E correct \in 0..total : AdjustCall(current, correct, total)

SpecAdjust == InitAdjust /\ [][NextAdjust]_vars

---------------------------------------------------------------------------
(* Requests handled by concurrent threads.  The server gives every request a
   thread of its own; a thread can be preempted between any two statements,
   and the steps below cut a handler where it reads or writes the state the
   threads share: the users table, the answer log and the seen store.  Each
   thread works on the Flask session it read from the request's cookie and
   sends it back with its response. *)

\* /start, lines 283-298: the user, the session, the difficulty, the query
\* and the unseen questions.
StartBegin(t, c, subcategory) ==
    LET user == current_user(cookie[c])
        session == WithSessionId(cookie[c])
        store == SetDefault(seen, session.session_id)
        difficulty == users[user].current_difficulty
        all_questions == QueryQuestions(subcategory, difficulty)
    IN  /\ thr[t].pc = "idle"
        /\ request' = Request("start", c, subcategory, <<>>)
        /\ IF user = 0
           THEN /\ resp' = Unauthorized("start")
                /\ UNCHANGED <<seen, thr>>
           ELSE /\ seen' = store
                /\ thr' = [thr EXCEPT ![t] =
                             [Idle EXCEPT !.pc = "start_sample", !.kind = "start",
                                          !.client = c, !.user = user,
                                          !.session = session,
                                          !.subcategory = subcategory,
                                          !.difficulty = difficulty,
                                          !.unseen = Unseen(store, session.session_id,
                                                            all_questions)]]
                /\ UNCHANGED resp
        /\ UNCHANGED <<users, logs, cookie, served, adj>>

\* /submit, lines 311-341: the user, the session, the scoring loop and the
\* commit of its AnswerLog rows.
SubmitBegin(t, c, subcategory, answers) ==
    LET user == current_user(cookie[c])
        session == WithSessionId(cookie[c])
    IN  /\ thr[t].pc = "idle"
        /\ request' = Request("submit", c, subcategory, answers)
        /\ IF user = 0
           THEN /\ resp' = Unauthorized("submit")
                /\ UNCHANGED <<seen, logs, thr>>
           ELSE /\ Len(logs) + Len(Logged(answers)) <= MaxLogs
                /\ seen' = SetDefault(seen, session.session_id)
                /\ logs' = logs \o NewLogs(session.session_id, answers)
                /\ thr' = [thr EXCEPT ![t] =
                             [Idle EXCEPT !.pc = "submit_adjust", !.kind = "submit",
                                          !.client = c, !.user = user,
                                          !.session = session,
                                          !.subcategory = subcategory,
                                          !.correct = CorrectCount(answers),
                                          !.total = Total(answers)]]
                /\ UNCHANGED resp
        /\ UNCHANGED <<users, cookie, served, adj>>

\* /submit, lines 343-347: user.current_difficulty, expired by the commit of
\* line 341, is loaded from the table and the new difficulty is computed and
\* assigned to the thread's own copy of the row.
SubmitAdjust(t) ==
    LET loaded == users[thr[t].user].current_difficulty IN
    /\ thr[t].pc = "submit_adjust"
    /\ thr' = [thr EXCEPT ![t] =
                 IF ZeroDivision(thr[t].total)
                 THEN [@ EXCEPT !.pc = "done", !.status = 500]
                 ELSE [@ EXCEPT !.pc = "submit_commit", !.loaded = loaded,
                                !.difficulty = adjust_difficulty(loaded, thr[t].correct,
                                                                 thr[t].total)]]
    /\ UNCHANGED <<users, logs, seen, cookie, request, resp, served, adj>>

\* /submit, line 348: the commit writes the row's difficulty when the assigned
\* value differs from the loaded one.
SubmitCommit(t) ==
    /\ thr[t].pc = "submit_commit"
    /\ users' = IF thr[t].difficulty # thr[t].loaded
                THEN [users EXCEPT ![thr[t].user].current_difficulty = thr[t].difficulty]
                ELSE users
    /\ thr' = [thr EXCEPT ![t].pc = "submit_query"]
    /\ UNCHANGED <<logs, seen, cookie, request, resp, served, adj>>

\* /submit, lines 350-355: user.current_difficulty, expired by the commit of
\* line 348, is loaded again for the query; then the unseen questions.
SubmitQuery(t) ==
    LET difficulty == users[thr[t].user].current_difficulty
        all_questions == QueryQuestions(thr[t].subcategory, difficulty)
    IN  /\ thr[t].pc = "submit_query"
        /\ thr' = [thr EXCEPT ![t] =
                     [@ EXCEPT !.pc = "submit_sample", !.difficulty = difficulty,
                               !.unseen = Unseen(seen, thr[t].session.session_id,
                                                 all_questions)]]
        /\ UNCHANGED <<users, logs, seen, cookie, request, resp, served, adj>>

\* /start, lines 299-307, and /submit, lines 356-364: the sample, the marks
\* and the response, which carries the thread's session as the new cookie.
Respond(t) ==
    /\ thr[t].pc \in {"start_sample", "submit_sample"}
    /\ \E questions \in Batches(thr[t].unseen) :
         /\ seen' = MarkSeen(seen, thr[t].session.session_id, questions)
         /\ served' = Returned(served, thr[t].session.session_id,
                               format_questions(questions))
         /\ cookie' = [cookie EXCEPT ![thr[t].client] = thr[t].session]
         /\ resp' = Response(thr[t].kind, 200, thr[t].difficulty,
                             format_questions(questions))
         /\ thr' = [thr EXCEPT ![t] =
                      [@ EXCEPT !.pc = "done", !.status = 200,
                                !.questions = format_questions(questions)]]
    /\ UNCHANGED <<users, logs, request, adj>>

\* The state after a POST /signup and a POST /start for subcategory s2 of
\* browser 1, handled one after the other from Init: the user is logged in and
\* the session has got the one question of s2 at the default difficulty.
InitConc ==
    LET first == QueryQuestions("s2", DefaultDifficulty) IN
    /\ users = <<[email |-> "a@x", current_difficulty |-> DefaultDifficulty]>>
    /\ logs = <<>>
    /\ seen = <<Ids(first)>>
    /\ cookie = [c \in Clients |-> [user_id |-> 1, session_id |-> 1]]
    /\ request = Request("start", 1, "s2", <<>>)
    /\ resp = Response("start", 200, DefaultDifficulty, format_questions(first))
    /\ served = Returned(<<>>, 1, format_questions(first))
    /\ adj = NoCall
    /\ thr = [t \in Threads |-> Idle]

NextConc ==
    \/ \E t \in Threads, c \in Clients, s \in Subcategories : StartBegin(t, c, s)
    \/ \E t \in Threads, c \in Clients, s \in Subcategories, a \in AnswerLists :
          SubmitBegin(t, c, s, a)
    \/ \E t \in Threads : SubmitAdjust(t)
    \/ \E t \in Threads : SubmitCommit(t)
    \/ \E t \in Threads : SubmitQuery(t)
    \/ \E t \in Threads : Respond(t)

SpecConc == InitConc /\ [][NextConc]_vars

---------------------------------------------------------------------------
(* Properties *)

\* Browser c's cookie names a user.
LoggedIn(c) == "user_id" \in DOMAIN cookie[c]

\* The step handles a /start or a /submit request (every action records the
\* request it handles).
Handles(kind) == request'.kind = kind

\* The ids a session had seen in the store.
SeenBy(store, sid) == IF sid \in DOMAIN store THEN store[sid] ELSE {}

\* The catalog's questions of a subcategory and difficulty outside a set of ids.
Candidates(subcategory, difficulty, before) ==
    {q \in QuestionIds :
        /\ QuestionById(q).subcategory = subcategory
        /\ QuestionById(q).difficulty = difficulty
        /\ q \notin before}

\* C1: no question id is returned twice to the same session id, whatever the
\* order of the /start and /submit requests that carry it: every batch is
\* disjoint from all batches the session got before.
C1_NoQuestionTwice ==
    \A sid \in DOMAIN served : \A q \in QuestionIds : served[sid][q] <= 1

\* A session that got more questions than one batch holds.
C1_Witness ==
    \E sid \in DOMAIN served :
        Cardinality({q \in QuestionIds : served[sid][q] >= 1}) > BatchSize

\* C2: for current in 1..3, total >= 1 and correct in 0..total the adjuster
\* returns min(current+1, 3) when 5*correct >= 4*total, max(current-1, 1) when
\* 5*correct <= 2*total, and current otherwise; both thresholds inclusive.
C2_AdjustRule ==
    adj.result =
        IF 5 * adj.correct >= 4 * adj.total
        THEN (IF adj.current + 1 <= 3 THEN adj.current + 1 ELSE 3)
        ELSE IF 5 * adj.correct <= 2 * adj.total
             THEN (IF adj.current - 1 >= 1 THEN adj.current - 1 ELSE 1)
             ELSE adj.current

\* Accuracy exactly 0.8 raised the difficulty.
C2_Witness ==
    /\ adj.total = 5 /\ adj.correct = 4 /\ adj.current = 2 /\ adj.result = 3

\* C3: every user's difficulty is in 1..3 and a new user starts at 2.
C3_DifficultyInRange ==
    /\ \A u \in DOMAIN users : users[u].current_difficulty \in 1..3
    /\ (request.kind = "signup" /\ resp.status = 200)
          => users[Len(users)].current_difficulty = 2

\* A submission of answers without a question id left the user at the floor.
C3_Witness ==
    /\ request.kind = "submit" /\ request.n_answers > 0 /\ resp.status = 200
    /\ logs = <<>>
    /\ \E u \in DOMAIN users : users[u].current_difficulty = 1

\* C4: an entry without question id is counted neither as correct nor in the
\* total that drives the difficulty adjustment, and adds no AnswerLog row.
C4_MissingIdNotCounted ==
    [][\A c \in Clients, s \in Subcategories, a \in AnswerLists :
          (LoggedIn(c) /\ Submit(c, s, a))
              => LET u == cookie[c].user_id
                     present == {i \in DOMAIN a : "question_id" \in DOMAIN a[i]}
                     correct == {i \in present : IsCorrect(a[i])}
                 IN  /\ users'[u].current_difficulty =
                            adjust_difficulty(users[u].current_difficulty,
                                              Cardinality(correct),
                                              Max(1, Cardinality(present)))
                     /\ Len(logs') = Len(logs) + Cardinality(present)]_vars

\* C5: a batch returned by /start or /submit holds no id the session had seen
\* when the request began, no id twice, and min(5, |unseen|) items.
C5_Batch(c, subcategory) ==
    LET before == IF "session_id" \in DOMAIN cookie[c]
                  THEN SeenBy(seen, cookie[c].session_id) ELSE {}
        difficulty == users'[cookie[c].user_id].current_difficulty
        batch == resp'.questions
    IN  /\ resp'.status = 200
        /\ \A i \in DOMAIN batch : batch[i].id \notin before
        /\ \A i, j \in DOMAIN batch : i # j => batch[i].id # batch[j].id
        /\ Len(batch) = Min(5, Cardinality(Candidates(subcategory, difficulty, before)))

C5_FreshBoundedBatch ==
    [][((Handles("start") \/ Handles("submit")) /\ LoggedIn(request'.client))
          => C5_Batch(request'.client, request'.subcategory)]_vars

\* A batch of five was returned to a session that had seen questions before.
C5_Witness ==
    /\ resp.status = 200 /\ Len(resp.questions) = 5
    /\ \E sid \in DOMAIN seen : Cardinality(seen[sid]) > 5

\* C6: for every entry with a question id the recorded is_correct flag, and
\* its count as correct, is whether the user's answer equals the catalog's
\* correct_answer of that question, whatever correct answer the request carries.
C6_RowsByCatalog(sid, a) ==
    LET l == SelectSeq(a, LAMBDA e : "question_id" \in DOMAIN e)
    IN  [i \in DOMAIN l |->
            [session_id |-> sid, question_id |-> l[i].question_id,
             is_correct |-> (Str(Get(l[i], "user_answer"))
                               = QuestionById(l[i].question_id).correct_answer)]]

C6_ScoredAgainstCatalog ==
    [][\A c \in Clients, s \in Subcategories, a \in AnswerLists :
          (LoggedIn(c) /\ Submit(c, s, a))
              => LET u == cookie[c].user_id
                     rows == C6_RowsByCatalog(cookie'[c].session_id, a)
                     correct == {i \in DOMAIN rows : rows[i].is_correct}
                 IN  /\ logs' = logs \o rows
                     /\ users'[u].current_difficulty =
                            adjust_difficulty(users[u].current_difficulty,
                                              Cardinality(correct), Total(a))]_vars

\* C8: every question /start returns has the requested subcategory and the
\* user's difficulty, every question /submit returns has the requested
\* subcategory and the adjusted difficulty reported as next_difficulty, and
\* the batch is empty when no unseen question matches exactly.
C8_Batch(c, subcategory, difficulty) ==
    LET before == IF "session_id" \in DOMAIN cookie[c]
                  THEN SeenBy(seen, cookie[c].session_id) ELSE {}
        batch == resp'.questions
    IN  /\ resp'.difficulty = difficulty
        /\ \A i \in DOMAIN batch :
              /\ QuestionById(batch[i].id).subcategory = subcategory
              /\ QuestionById(batch[i].id).difficulty = difficulty
              /\ batch[i].difficulty = difficulty
        /\ Candidates(subcategory, difficulty, before) = {} => batch = <<>>

C8_ExactMatchOnly ==
    [][LET c == request'.client
           s == request'.subcategory
       IN  /\ (Handles("start") /\ LoggedIn(c))
                 => C8_Batch(c, s, users[cookie[c].user_id].current_difficulty)
           /\ (Handles("submit") /\ LoggedIn(c))
                 => C8_Batch(c, s, users'[cookie[c].user_id].current_difficulty)]_vars

\* An empty batch at difficulty 3 for a session with unseen questions of the
\* subcategory at difficulty 2.
C8_Witness ==
    /\ request.kind = "submit" /\ request.subcategory = "s1"
    /\ resp.status = 200 /\ resp.difficulty = 3 /\ resp.questions = <<>>
    /\ \E sid \in DOMAIN seen : 1 \notin seen[sid]

\* C9: a /submit with an empty answers list succeeds, lowers the difficulty to
\* max(current - 1, 1), adds no AnswerLog row and selects the next batch at the
\* lowered difficulty.
C9_EmptySubmit ==
    [][(Handles("submit") /\ request'.n_answers = 0 /\ LoggedIn(request'.client))
          => LET c == request'.client
                 u == cookie[c].user_id
                 old == users[u].current_difficulty
                 lowered == IF old - 1 >= 1 THEN old - 1 ELSE 1
             IN  /\ resp'.status = 200
                 /\ users'[u].current_difficulty = lowered
                 /\ logs' = logs
                 /\ C5_Batch(c, request'.subcategory)
                 /\ C8_Batch(c, request'.subcategory, lowered)]_vars

\* An empty submission answered with a question of the lowered difficulty.
C9_Witness ==
    /\ request.kind = "submit" /\ request.n_answers = 0
    /\ resp.status = 200 /\ resp.difficulty = 2 /\ resp.questions # <<>>

\* C10: /start and /submit without a logged-in user answer 401 and change
\* neither the cookie, the seen store, the answer log nor any difficulty.
C10_UnauthorizedNoEffect ==
    [][((Handles("start") \/ Handles("submit")) /\ ~LoggedIn(request'.client))
          => /\ resp'.status = 401
             /\ UNCHANGED <<users, logs, seen, cookie>>]_vars

\* A 401 answered while a user and a session with seen questions exist.
C10_Witness ==
    /\ resp.status = 401
    /\ users # <<>>
    /\ \E sid \in DOMAIN seen : seen[sid] # {}

\* No difficulty update is lost: once both threads have answered a /submit,
\* the stored difficulty is what the two adjustments give when applied one
\* after the other in some order.  (Under SpecConc the two threads'
\* submissions are the only ones, so they start from a new user's difficulty.)
NoLostUpdate ==
    (\A t \in Threads : thr[t].pc = "done" /\ thr[t].status = 200 /\ thr[t].kind = "submit")
        => \E first, second \in Threads :
              /\ first # second
              /\ users[thr[first].user].current_difficulty =
                    adjust_difficulty(
                        adjust_difficulty(2, thr[first].correct, thr[first].total),
                        thr[second].correct, thr[second].total)

\* Once both threads have answered requests of one session id, their batches
\* are disjoint.
DisjointBatches ==
    (/\ \A t \in Threads : thr[t].pc = "done" /\ thr[t].status = 200
     /\ thr[1].session.session_id = thr[2].session.session_id)
        => {thr[1].questions[i].id : i \in DOMAIN thr[1].questions}
             \cap {thr[2].questions[i].id : i \in DOMAIN thr[2].questions} = {}

\* C7: two requests of one account and one session that are handled
\* concurrently leave the difficulty that the two adjustments give when
\* applied one after the other in some order, and return disjoint batches.
C7_Serialized == NoLostUpdate /\ DisjointBatches

=============================================================================
